---- MODULE Spec2Model ----
(***************************************************************************)
(* Model of src/enumutil.rs: the RawEnum conversions generated by          *)
(* impl_enum! from a declaration (a list of `RAW => Variant` match arms)   *)
(* and the extensible container Enum<E, I> built on them.                  *)
(*                                                                         *)
(* A client holds one Enum value `val`, built by Enum::from_raw or by      *)
(* From<E>, and applies the accessors to copies of it (Enum is Copy).      *)
(* `last` records the most recent call: its name, receiver, argument and   *)
(* the sequence of values it returned (<<x>> for a call that returned x,   *)
(* <<>> for a call that panicked).                                         *)
(*                                                                         *)
(* Spec         one client, declarations as the source writes them         *)
(* SpecCompat   the binding is generated from an older declaration         *)
(* SpecDisplay  rendering, for each text type_name may give                *)
(* SpecAny      the generated conversions, for every declaration the       *)
(*              macros expand                                              *)
(* SpecCfg      a declaration some of whose arms are guarded by a          *)
(*              build-time condition that is off                           *)
(* SpecPerm     two orders of one declaration whose constants are distinct *)
(* SpecShared   concurrent contexts, each with a copy of one value of the  *)
(*              Example of the tests                                       *)
(* SpecWrap     the wrappers of one native object (network.rs and its      *)
(*              siblings) and the check_* macros of util.rs                *)
(***************************************************************************)
EXTENDS Integers, Sequences, FiniteSets, TLC

VARIABLES arms, newer, val, origin, valNewer, last, panicked,
          typeName, copies, who, dead, disabled, native

vars == <<arms, newer, val, origin, valNewer, last, panicked,
          typeName, copies, who, dead, disabled, native>>

\* What the calls of a single client leave alone: the text type_name gives
\* for E, the copies held by concurrent contexts, the arms of the
\* declaration whose build-time condition is off, and the native objects.
context == <<typeName, copies, who, dead, disabled, native>>

(* ---------------------------------------------------------------- bounds *)

\* The raw type I is modelled as 0..MaxRaw.
MaxRaw == 3

\* Longest Vec<E> handed to is_any.
MaxWant == 2

\* Most arms in a declaration that may repeat a constant or a variant.
MaxArms == 3

\* Concurrent contexts holding a copy of one value.
NumContexts == 2

\* A native call returns a c_int in -MaxNative..MaxNative.
MaxNative == 2

\* Most references taken on one native object.
MaxRefs == 3

Raws == 0..MaxRaw

\* The variants of the enumeration declared in the tests (Example).
Variants == {"Foo", "Bar", "Baz"}

(* ------------------------------------------------------- value encodings *)

\* Option<T>
Some(x) == <<"Some", x>>
None == <<"None">>

\* Enum<E, I>
Known(e) == [tag |-> "Known", k |-> e]
Unknown(v) == [tag |-> "Unknown", u |-> v]

\* UnknownEnumError<I>
UnknownEnumError(v) == [value |-> v]

\* Result<E, UnknownEnumError<I>>
Ok(e) == [ok |-> e]
Err(x) == [err |-> x]

(* ----------------------------------------------------------------- text *)

\* Text is a sequence of one-character strings.
\* std::any::type_name::<E>() for the Example of the tests: the format is not
\* guaranteed; it is the identifier, with or without its module path.
BareName == <<"E", "x", "a", "m", "p", "l", "e">>
QualifiedName == <<"t", "e", "s", "t", "s", ":", ":">> \o BareName
TypeNames == {BareName, QualifiedName}

UpperCase == <<"A", "B", "C", "D", "E", "F", "G", "H", "I", "J", "K", "L", "M",
               "N", "O", "P", "Q", "R", "S", "T", "U", "V", "W", "X", "Y", "Z">>
LowerCase == <<"a", "b", "c", "d", "e", "f", "g", "h", "i", "j", "k", "l", "m",
               "n", "o", "p", "q", "r", "s", "t", "u", "v", "w", "x", "y", "z">>
Digits == <<"0", "1", "2", "3", "4", "5", "6", "7", "8", "9">>

\* char::to_lowercase on the characters of an identifier
Lower(c) ==
    IF \E i \in DOMAIN UpperCase : UpperCase[i] = c
    THEN LowerCase[CHOOSE i \in DOMAIN UpperCase : UpperCase[i] = c]
    ELSE c

\* Mutant: .to_lowercase() is left out.
to_lowercase_left_out(str) == str

\* str::to_lowercase
to_lowercase(str) == [i \in DOMAIN str |-> Lower(str[i])]

\* stringify!($type): the identifier of a variant as text
stringify(v) ==
    CASE v = "Foo" -> <<"F", "o", "o">>
      [] v = "Bar" -> <<"B", "a", "r">>
      [] v = "Baz" -> <<"B", "a", "z">>

\* "{}" of an unsigned integer: its decimal digits
RECURSIVE Decimal(_)
Decimal(n) ==
    IF n < 10 THEN <<Digits[n + 1]>>
    ELSE Decimal(n \div 10) \o <<Digits[(n % 10) + 1]>>

(* ------------------------------------------------------ the declarations *)

\* One match arm `RAW => Variant` of a declaration.
Arm(r, n) == [raw |-> r, name |-> n]

ArmSet == {Arm(r, n) : r \in Raws, n \in Variants}

\* The enumeration type E of a declaration: the variants its arms name
\* (the match generated for to_raw is exhaustive over E).
VariantsOf(decl) == {decl[i].name : i \in DOMAIN decl}

\* The raw constants a declaration names.
RawsOf(decl) == {decl[i].raw : i \in DOMAIN decl}

\* Declarations as the binding writes them: one arm per native constant,
\* one arm per variant.
WellFormed(decl) ==
    \A i, j \in DOMAIN decl :
        i # j => decl[i].raw # decl[j].raw /\ decl[i].name # decl[j].name

Declarations ==
    {d \in UNION {[1..n -> ArmSet] : n \in 1..Cardinality(Variants)} : WellFormed(d)}

\* The declaration of the tests.
FOO == 0
BAR == 1
BAZ == 2
ExampleDecl == <<Arm(FOO, "Foo"), Arm(BAR, "Bar"), Arm(BAZ, "Baz")>>

\* What the macros ask of a declaration: every rule takes at least one arm
\* `RAW => Variant,`; no rule compares one arm with another, and the matches
\* they build compile with arms that repeat a pattern (the later arm is
\* unreachable).
Expands(decl) == Len(decl) >= 1

AnyDeclarations == {d \in UNION {[1..n -> ArmSet] : n \in 0..MaxArms} : Expands(d)}

\* Mutant: the attributes of an arm are dropped, every arm is compiled.
CfgStrip_drops_attributes(decl, off) == decl

\* What the compiler keeps of the arms `$(#[$attr])* PATTERN => VALUE` of a
\* generated match: an arm whose #[cfg(..)] condition is off (its index is
\* in `off`) is removed, the others stay in their order.
CfgStrip(decl, off) ==
    LET kept == {i \in DOMAIN decl : i \notin off}
        nth(k) == CHOOSE i \in kept : Cardinality({j \in kept : j <= i}) = k
    IN  [k \in 1..Cardinality(kept) |-> decl[nth(k)]]

\* The native library's contract: no two constants of one enumeration are
\* equal.
DistinctRaws(decl) ==
    \A i, j \in DOMAIN decl : i # j => decl[i].raw # decl[j].raw

\* The same arms written in every order.
PermutationsOf(decl) ==
    {[i \in DOMAIN decl |-> decl[p[i]]] : p \in Permutations(DOMAIN decl)}

(* ------------------------------------------------- generated by impl_enum *)

\* Mutant: only the first declared arm is generated.
impl_enum_from_first_arm_only(decl, raw) ==
    IF decl # <<>> /\ Head(decl).raw = raw THEN Some(Head(decl).name) ELSE None

\* Mutant: of two arms for one constant the later one decides.
impl_enum_from_last_match(decl, raw) ==
    IF \E i \in DOMAIN decl : decl[i].raw = raw
    THEN Some(decl[CHOOSE i \in DOMAIN decl :
                       /\ decl[i].raw = raw
                       /\ \A j \in DOMAIN decl : decl[j].raw = raw => j <= i].name)
    ELSE None

\* impl_enum_from!: match raw { RAW1 => Some(Self::V1), ..., _ => None }
RECURSIVE impl_enum_from(_, _)
impl_enum_from(decl, raw) ==
    IF decl = <<>> THEN None
    ELSE IF Head(decl).raw = raw THEN Some(Head(decl).name)
    ELSE impl_enum_from(Tail(decl), raw)

\* Mutant: the variant's position is returned (a cast of the discriminant)
\* instead of the declared constant.
impl_enum_to_cast(decl, e) ==
    (CHOOSE i \in DOMAIN decl : decl[i].name = e) - 1

\* Mutant: of two arms for one variant the later one decides.
impl_enum_to_last_arm(decl, e) ==
    decl[CHOOSE i \in DOMAIN decl :
             /\ decl[i].name = e
             /\ \A j \in DOMAIN decl : decl[j].name = e => j <= i].raw

\* impl_enum_to!: match self { Self::V1 => RAW1, ... } (exhaustive over E)
RECURSIVE impl_enum_to(_, _)
impl_enum_to(decl, e) ==
    IF Head(decl).name = e THEN Head(decl).raw
    ELSE impl_enum_to(Tail(decl), e)

\* impl_enum_display!: match self { Self::V1 => write!(f, "{}",
\* stringify!(V1).to_lowercase()), ... }
RECURSIVE impl_enum_display(_, _)
impl_enum_display(decl, e) ==
    IF Head(decl).name = e THEN to_lowercase(stringify(Head(decl).name))
    ELSE impl_enum_display(Tail(decl), e)

\* <E as Display>::fmt, as the text written
Display_fmt(decl, e) == impl_enum_display(decl, e)

\* Mutant: the last declared arm is left out of the generated match.
RawEnum_from_raw_drops_last(decl, raw) ==
    impl_enum_from(SubSeq(decl, 1, Len(decl) - 1), raw)

\* <E as RawEnum<I>>::from_raw
RawEnum_from_raw(decl, raw) == impl_enum_from(decl, raw)

\* Mutant: every variant converts to the first declared constant.
RawEnum_to_raw_first_constant(decl, e) == Head(decl).raw

\* <E as RawEnum<I>>::to_raw
RawEnum_to_raw(decl, e) == impl_enum_to(decl, e)

(* ------------------------------------------------------------ Enum<E, I> *)

\* Mutant: an unresolved raw value is replaced by the type's zero.
from_raw_loses_raw(decl, raw) ==
    LET o == RawEnum_from_raw(decl, raw)
    IN  IF o # None THEN Known(o[2]) ELSE Unknown(0)

\* Mutant: an unresolved raw value is coerced to the first declared variant.
from_raw_coerces(decl, raw) ==
    LET o == RawEnum_from_raw(decl, raw)
    IN  IF o # None THEN Known(o[2]) ELSE Known(Head(decl).name)

\* Mutant: E::from_raw is not consulted, the raw value is kept as it came.
from_raw_never_resolves(decl, raw) == Unknown(raw)

\* Enum::from_raw
from_raw(decl, raw) ==
    LET o == RawEnum_from_raw(decl, raw)
    IN  IF o # None THEN Known(o[2]) ELSE Unknown(raw)

\* Mutant: the Unknown arm re-resolves instead of returning its payload.
to_raw_drops_unknown(decl, x) ==
    IF x.tag = "Known" THEN RawEnum_to_raw(decl, x.k) ELSE Head(decl).raw

\* Enum::to_raw
to_raw(decl, x) ==
    IF x.tag = "Known" THEN RawEnum_to_raw(decl, x.k) ELSE x.u

\* Mutant: unwrap falls back to a variant instead of panicking.
unwrap_falls_back(x) == IF x.tag = "Known" THEN <<x.k>> ELSE <<"Foo">>

\* Enum::unwrap: the values returned (none when the call panics)
unwrap(x) == IF x.tag = "Known" THEN <<x.k>> ELSE <<>>

\* Mutant: the arms of the match are swapped over.
unwrap_or_always_default(x, def) == IF x.tag = "Known" THEN def ELSE def

\* Enum::unwrap_or
unwrap_or(x, def) == IF x.tag = "Known" THEN x.k ELSE def

\* Enum::is_known
is_known(x) == IF x.tag = "Known" THEN TRUE ELSE FALSE

\* Mutant: the arms were copied from is_known and not flipped.
is_unknown_not_flipped(x) == IF x.tag = "Known" THEN TRUE ELSE FALSE

\* Enum::is_unknown
is_unknown(x) == IF x.tag = "Known" THEN FALSE ELSE TRUE

\* Mutant: the Known arm gives its variant away.
known_always_none(x) == IF x.tag = "Known" THEN None ELSE None

\* Enum::known
known(x) == IF x.tag = "Known" THEN Some(x.k) ELSE None

\* Enum::unknown
unknown(x) == IF x.tag = "Known" THEN None ELSE Some(x.u)

\* Mutant: the conversion goes through the raw value and keeps it unresolved.
from_keeps_raw(v) == Unknown(RawEnum_to_raw(arms, v))

\* From<E> for Enum<E, I>
from(v) == Known(v)

\* Mutant: the error is built with the type's zero, not the payload.
into_loses_raw(x) == IF x.tag = "Known" THEN Ok(x.k) ELSE Err(UnknownEnumError(0))

\* From<Enum<E, I>> for Result<E, UnknownEnumError<I>>
into(x) == IF x.tag = "Known" THEN Ok(x.k) ELSE Err(UnknownEnumError(x.u))

\* UnknownEnumError::value
value(e) == e.value

\* Result::unwrap_or, applied by the tests to the converted value
Result_unwrap_or(r, def) == IF "ok" \in DOMAIN r THEN r.ok ELSE def

\* Mutant: the Unknown arm writes the raw value alone.
fmt_without_type(decl, name, x) ==
    IF x.tag = "Known" THEN Display_fmt(decl, x.k)
    ELSE <<"(">> \o Decimal(x.u) \o <<")">>

\* <Enum<E, I> as Display>::fmt, as the text written; `name` is what
\* std::any::type_name::<E>() gives
fmt(decl, name, x) ==
    IF x.tag = "Known" THEN Display_fmt(decl, x.k)
    ELSE name \o <<"(">> \o Decimal(x.u) \o <<")">>

(* ------------------------------------- accessors taking caller's values *)

\* Mutant: the Unknown arm answers without a variant to give to f.
is_known_and_unknown_true(x, f) ==
    IF x.tag = "Known" THEN [ret |-> f[x.k], calls |-> <<x.k>>]
    ELSE [ret |-> TRUE, calls |-> <<>>]

\* Enum::is_known_and: the value returned and the arguments f was called with
is_known_and(x, f) ==
    IF x.tag = "Known" THEN [ret |-> f[x.k], calls |-> <<x.k>>]
    ELSE [ret |-> FALSE, calls |-> <<>>]

\* Enum::is_unknown_and: the value returned and the arguments f was called with
is_unknown_and(x, f) ==
    IF x.tag = "Known" THEN [ret |-> FALSE, calls |-> <<>>]
    ELSE [ret |-> f[x.u], calls |-> <<x.u>>]

\* Mutant: the two sides are compared by their raw values.
is_compares_raw(x, want) == to_raw(arms, x) = RawEnum_to_raw(arms, want)

\* Enum::is
is(x, want) == IF x.tag = "Known" THEN want = x.k ELSE FALSE

\* Mutant: only the first element is looked at.
contains_first_only(want, k) == want # <<>> /\ want[1] = k

\* Vec<E>::contains
contains(want, k) == \E i \in DOMAIN want : want[i] = k

\* Mutant: the variant is not matched, any non-empty list is accepted.
is_any_ignores_variant(x, want) ==
    IF x.tag = "Known" THEN contains(want, x.k) ELSE want # <<>>

\* Enum::is_any
is_any(x, want) == IF x.tag = "Known" THEN contains(want, x.k) ELSE FALSE

(* ------------------------------------------------------- caller's inputs *)

\* The closures the tests pass: |k| k == c and |_| true, as their graphs.
EqualTo(S, c) == [k \in S |-> k = c]
Always(S) == [k \in S |-> TRUE]
Closures(S) == {EqualTo(S, c) : c \in S} \cup {Always(S)}

\* The Vec<E> arguments of is_any.
Wants(E) == UNION {[1..n -> E] : n \in 0..MaxWant}

\* The values of type Enum<E, I> for the E of a declaration.
EnumValues(decl) == {Known(e) : e \in VariantsOf(decl)} \cup {Unknown(r) : r \in Raws}

\* A declaration `new` extends `old`: old is new with some arms left out.
Extends(new, old) ==
    \E f \in [DOMAIN old -> DOMAIN new] :
        /\ \A i, j \in DOMAIN old : i < j => f[i] < f[j]
        /\ \A i \in DOMAIN old : old[i] = new[f[i]]

(* --------------------------------------------------------------- actions *)

\* A call: receiver, argument, the values returned (none after a panic) and
\* the arguments with which the call invoked the caller's closure.
Call(name, self, arg, ret, calls) ==
    [op |-> name, self |-> self, arg |-> arg, ret |-> ret, calls |-> calls]

NoArg == <<>>
NoCalls == <<>>
NoSelf == <<>>

\* The state a client is in after its first Enum::from_raw.
Constructed ==
    /\ \E r \in Raws :
        /\ val = from_raw(arms, r)
        /\ valNewer = from_raw(newer, r)
        /\ origin = [by |-> "from_raw", raw |-> r]
        /\ last = Call("Enum::from_raw", NoSelf, r, <<val>>, NoCalls)
    /\ panicked = FALSE

\* No native object is wrapped.
NoNative == [kind |-> "none", refs |-> 0, live |-> 0, connRefs |-> 0, connects |-> 0]

\* A single client, no concurrent contexts, no native object.
Single ==
    /\ copies = <<>>
    /\ who = 0
    /\ dead = {}
    /\ native = NoNative

\* A single client of a declaration all of whose arms are compiled.
Alone ==
    /\ Single
    /\ disabled = {}

\* The binding and the native library carry the same declaration.
Init ==
    /\ arms \in Declarations
    /\ newer = arms
    /\ Constructed
    /\ typeName = QualifiedName
    /\ Alone

\* The binding was built from `arms`; `newer` is the declaration of a later
\* version, which has added arms.
InitCompat ==
    /\ newer \in Declarations
    /\ arms \in {d \in Declarations : Extends(newer, d)}
    /\ Constructed
    /\ typeName = QualifiedName
    /\ Alone

\* let e = Enum::<E, I>::from_raw(r); valNewer is the same raw resolved by a
\* binding generated from the newer declaration.
EnumFromRaw(r) ==
    /\ ~panicked
    /\ val' = from_raw(arms, r)
    /\ valNewer' = from_raw(newer, r)
    /\ origin' = [by |-> "from_raw", raw |-> r]
    /\ last' = Call("Enum::from_raw", NoSelf, r, <<val'>>, NoCalls)
    /\ UNCHANGED <<arms, newer, panicked, context>>

\* let e: Enum<E, I> = v.into()
EnumFrom(v) ==
    /\ ~panicked
    /\ val' = from(v)
    /\ valNewer' = from(v)
    /\ origin' = [by |-> "from", e |-> v]
    /\ last' = Call("Enum::from", NoSelf, v, <<val'>>, NoCalls)
    /\ UNCHANGED <<arms, newer, panicked, context>>

\* let e = Enum::Known(v): the variants of a pub enum are public constructors.
EnumKnownLiteral(v) ==
    /\ ~panicked
    /\ val' = Known(v)
    /\ valNewer' = Known(v)
    /\ origin' = [by |-> "Known", e |-> v]
    /\ last' = Call("Enum::Known", NoSelf, v, <<val'>>, NoCalls)
    /\ UNCHANGED <<arms, newer, panicked, context>>

\* let e = Enum::Unknown(r)
EnumUnknownLiteral(r) ==
    /\ ~panicked
    /\ val' = Unknown(r)
    /\ valNewer' = Unknown(r)
    /\ origin' = [by |-> "Unknown", raw |-> r]
    /\ last' = Call("Enum::Unknown", NoSelf, r, <<val'>>, NoCalls)
    /\ UNCHANGED <<arms, newer, panicked, context>>

\* Mutant: unwrap_or stores the default it was given into the receiver.
Returns_stores_default(name, arg, ret, calls) ==
    /\ ~panicked
    /\ last' = Call(name, val, arg, <<ret>>, calls)
    /\ val' = IF name = "Enum::unwrap_or" THEN Known(arg) ELSE val
    /\ UNCHANGED <<arms, newer, origin, valNewer, panicked, context>>

\* A call on a copy of val that returns: val itself is left as it is.
Returns(name, arg, ret, calls) ==
    /\ ~panicked
    /\ last' = Call(name, val, arg, <<ret>>, calls)
    /\ UNCHANGED <<arms, newer, val, origin, valNewer, panicked, context>>

EnumToRaw == Returns("Enum::to_raw", NoArg, to_raw(arms, val), NoCalls)

\* e.unwrap(): returns, or panics and ends the client.
EnumUnwrap ==
    /\ ~panicked
    /\ last' = Call("Enum::unwrap", val, NoArg, unwrap(val), NoCalls)
    /\ panicked' = (unwrap(val) = <<>>)
    /\ UNCHANGED <<arms, newer, val, origin, valNewer, context>>

EnumUnwrapOr(def) == Returns("Enum::unwrap_or", def, unwrap_or(val, def), NoCalls)

EnumIsKnown == Returns("Enum::is_known", NoArg, is_known(val), NoCalls)

EnumIsUnknown == Returns("Enum::is_unknown", NoArg, is_unknown(val), NoCalls)

EnumIsKnownAnd(f) ==
    Returns("Enum::is_known_and", f, is_known_and(val, f).ret, is_known_and(val, f).calls)

EnumIsUnknownAnd(f) ==
    Returns("Enum::is_unknown_and", f, is_unknown_and(val, f).ret,
            is_unknown_and(val, f).calls)

EnumIs(want) == Returns("Enum::is", want, is(val, want), NoCalls)

EnumIsAny(want) == Returns("Enum::is_any", want, is_any(val, want), NoCalls)

EnumKnown == Returns("Enum::known", NoArg, known(val), NoCalls)

EnumUnknown == Returns("Enum::unknown", NoArg, unknown(val), NoCalls)

\* e.to_string()
EnumToString == Returns("Enum::to_string", NoArg, fmt(arms, typeName, val), NoCalls)

\* let r: Result<E, UnknownEnumError<I>> = e.into()
EnumInto == Returns("Enum::into", NoArg, into(val), NoCalls)

\* r.err().value(), on the error the conversion has just returned
ErrorValue ==
    /\ ~panicked
    /\ last.op = "Enum::into"
    /\ "err" \in DOMAIN last.ret[1]
    /\ last' = Call("UnknownEnumError::value", last.ret[1].err, NoArg,
                    <<value(last.ret[1].err)>>, NoCalls)
    /\ UNCHANGED <<arms, newer, val, origin, valNewer, panicked, context>>

\* E::from_raw(r)
RawEnumFromRaw(r) ==
    /\ ~panicked
    /\ last' = Call("RawEnum::from_raw", NoSelf, r, <<RawEnum_from_raw(arms, r)>>, NoCalls)
    /\ UNCHANGED <<arms, newer, val, origin, valNewer, panicked, context>>

\* v.to_raw()
RawEnumToRaw(v) ==
    /\ ~panicked
    /\ last' = Call("RawEnum::to_raw", v, NoArg, <<RawEnum_to_raw(arms, v)>>, NoCalls)
    /\ UNCHANGED <<arms, newer, val, origin, valNewer, panicked, context>>

\* v.to_string()
RawEnumToString(v) ==
    /\ ~panicked
    /\ last' = Call("Display::to_string", v, NoArg, <<Display_fmt(arms, v)>>, NoCalls)
    /\ UNCHANGED <<arms, newer, val, origin, valNewer, panicked, context>>

Next ==
    \/ \E r \in Raws : EnumFromRaw(r)
    \/ \E v \in VariantsOf(arms) : EnumFrom(v)
    \/ \E v \in VariantsOf(arms) : EnumKnownLiteral(v)
    \/ \E r \in Raws : EnumUnknownLiteral(r)
    \/ EnumToRaw
    \/ EnumUnwrap
    \/ \E def \in VariantsOf(arms) : EnumUnwrapOr(def)
    \/ EnumIsKnown
    \/ EnumIsUnknown
    \/ \E f \in Closures(VariantsOf(arms)) : EnumIsKnownAnd(f)
    \/ \E f \in Closures(Raws) : EnumIsUnknownAnd(f)
    \/ \E want \in VariantsOf(arms) : EnumIs(want)
    \/ \E want \in Wants(VariantsOf(arms)) : EnumIsAny(want)
    \/ EnumKnown
    \/ EnumUnknown
    \/ EnumInto
    \/ ErrorValue
    \/ \E r \in Raws : RawEnumFromRaw(r)
    \/ \E v \in VariantsOf(arms) : RawEnumToRaw(v)
    \/ EnumToString
    \/ \E v \in VariantsOf(arms) : RawEnumToString(v)

Spec == Init /\ [][Next]_vars

\* The calls the comparison of two declarations needs.
NextCompat ==
    \/ \E r \in Raws : EnumFromRaw(r)
    \/ \E v \in VariantsOf(arms) : EnumFrom(v)
    \/ EnumToRaw
    \/ EnumIsKnown
    \/ EnumUnknown

SpecCompat == InitCompat /\ [][NextCompat]_vars

\* Rendering: type_name may give either text for E.
InitDisplay ==
    /\ arms \in Declarations
    /\ newer = arms
    /\ Constructed
    /\ typeName \in TypeNames
    /\ Alone

NextDisplay ==
    \/ \E r \in Raws : EnumFromRaw(r)
    \/ \E v \in VariantsOf(arms) : EnumKnownLiteral(v)
    \/ \E r \in Raws : EnumUnknownLiteral(r)
    \/ EnumToString
    \/ \E v \in VariantsOf(arms) : RawEnumToString(v)

SpecDisplay == InitDisplay /\ [][NextDisplay]_vars

\* The generated conversions of any declaration the macros expand; the
\* client has resolved the first declared constant.
InitAny ==
    /\ arms \in AnyDeclarations
    /\ newer = arms
    /\ val = from_raw(arms, Head(arms).raw)
    /\ valNewer = val
    /\ origin = [by |-> "from_raw", raw |-> Head(arms).raw]
    /\ last = Call("Enum::from_raw", NoSelf, Head(arms).raw, <<val>>, NoCalls)
    /\ panicked = FALSE
    /\ typeName = QualifiedName
    /\ Alone

NextAny ==
    \/ \E r \in Raws : RawEnumFromRaw(r)
    \/ \E v \in VariantsOf(arms) : RawEnumToRaw(v)
    \/ \E v \in VariantsOf(arms) : RawEnumToString(v)

SpecAny == InitAny /\ [][NextAny]_vars

\* `newer` is the declaration as written, `disabled` the arms whose
\* build-time condition is off in this build, `arms` what the three
\* generated matches are compiled from.
InitCfg ==
    /\ newer \in Declarations
    /\ disabled \in SUBSET DOMAIN newer
    /\ arms = CfgStrip(newer, disabled)
    /\ Constructed
    /\ typeName = QualifiedName
    /\ Single

NextCfg ==
    \/ \E r \in Raws : EnumFromRaw(r)
    \/ EnumToRaw
    \/ \E r \in Raws : RawEnumFromRaw(r)
    \/ \E v \in VariantsOf(arms) : RawEnumToRaw(v)
    \/ \E v \in VariantsOf(arms) : RawEnumToString(v)

SpecCfg == InitCfg /\ [][NextCfg]_vars

\* One declaration with distinct constants, expanded as written (arms) and
\* with its arms in another order (newer).
InitPerm ==
    /\ arms \in {d \in AnyDeclarations : DistinctRaws(d)}
    /\ newer \in PermutationsOf(arms)
    /\ val = from_raw(arms, Head(arms).raw)
    /\ valNewer = from_raw(newer, Head(arms).raw)
    /\ origin = [by |-> "from_raw", raw |-> Head(arms).raw]
    /\ last = Call("Enum::from_raw", NoSelf, Head(arms).raw, <<val>>, NoCalls)
    /\ panicked = FALSE
    /\ typeName = QualifiedName
    /\ Alone

SpecPerm == InitPerm /\ [][NextAny]_vars

(* ---------------------------------------------------- concurrent contexts *)

Contexts == 1..NumContexts

\* What a call on x returns (nothing when it panics) and the arguments with
\* which it invokes the caller's closure.
Outcome(name, x, arg) ==
    CASE name = "Enum::to_raw" -> [ret |-> <<to_raw(arms, x)>>, calls |-> NoCalls]
      [] name = "Enum::unwrap" -> [ret |-> unwrap(x), calls |-> NoCalls]
      [] name = "Enum::unwrap_or" -> [ret |-> <<unwrap_or(x, arg)>>, calls |-> NoCalls]
      [] name = "Enum::is_known" -> [ret |-> <<is_known(x)>>, calls |-> NoCalls]
      [] name = "Enum::is_unknown" -> [ret |-> <<is_unknown(x)>>, calls |-> NoCalls]
      [] name = "Enum::is_known_and" ->
             [ret |-> <<is_known_and(x, arg).ret>>, calls |-> is_known_and(x, arg).calls]
      [] name = "Enum::is_unknown_and" ->
             [ret |-> <<is_unknown_and(x, arg).ret>>, calls |-> is_unknown_and(x, arg).calls]
      [] name = "Enum::is" -> [ret |-> <<is(x, arg)>>, calls |-> NoCalls]
      [] name = "Enum::is_any" -> [ret |-> <<is_any(x, arg)>>, calls |-> NoCalls]
      [] name = "Enum::known" -> [ret |-> <<known(x)>>, calls |-> NoCalls]
      [] name = "Enum::unknown" -> [ret |-> <<unknown(x)>>, calls |-> NoCalls]
      [] name = "Enum::into" -> [ret |-> <<into(x)>>, calls |-> NoCalls]
      [] name = "Enum::to_string" -> [ret |-> <<fmt(arms, typeName, x)>>, calls |-> NoCalls]
      [] name = "UnknownEnumError::value" -> [ret |-> <<value(x)>>, calls |-> NoCalls]

\* Mutant: the contexts share one cell, and unwrap_or stores its default in it.
CtxCall_shared_cell(c, name, arg) ==
    /\ c \notin dead
    /\ last' = Call(name, copies[c], arg, Outcome(name, copies[c], arg).ret,
                    Outcome(name, copies[c], arg).calls)
    /\ who' = c
    /\ dead' = IF Outcome(name, copies[c], arg).ret = <<>> THEN dead \cup {c} ELSE dead
    /\ copies' = IF name = "Enum::unwrap_or" THEN [d \in Contexts |-> Known(arg)]
                 ELSE copies
    /\ UNCHANGED <<arms, newer, val, origin, valNewer, panicked, typeName, disabled,
                   native>>

\* Context c calls `name` on its copy. Enum and UnknownEnumError are Copy and
\* every method takes self or &self: the copy stays as it is. A panic ends
\* the context that called, no other.
CtxCall(c, name, arg) ==
    /\ c \notin dead
    /\ last' = Call(name, copies[c], arg, Outcome(name, copies[c], arg).ret,
                    Outcome(name, copies[c], arg).calls)
    /\ who' = c
    /\ dead' = IF Outcome(name, copies[c], arg).ret = <<>> THEN dead \cup {c} ELSE dead
    /\ UNCHANGED <<arms, newer, val, origin, valNewer, panicked, typeName, copies,
                   disabled, native>>

IsEnum(x) == "tag" \in DOMAIN x

\* One value of the Example of the tests, an Enum or an UnknownEnumError,
\* and a copy of it in every context.
InitShared ==
    /\ arms = ExampleDecl
    /\ newer = arms
    /\ val \in EnumValues(arms) \cup {UnknownEnumError(r) : r \in Raws}
    /\ valNewer = val
    /\ origin = [by |-> "copy"]
    /\ last = Call("Copy::copy", NoSelf, val, <<val>>, NoCalls)
    /\ panicked = FALSE
    /\ typeName = QualifiedName
    /\ copies = [c \in Contexts |-> val]
    /\ who = 0
    /\ dead = {}
    /\ disabled = {}
    /\ native = NoNative

NextShared ==
    \E c \in Contexts :
        \/ /\ IsEnum(copies[c])
           /\ \/ \E name \in {"Enum::to_raw", "Enum::unwrap", "Enum::is_known",
                               "Enum::is_unknown", "Enum::known", "Enum::unknown",
                               "Enum::into", "Enum::to_string"} : CtxCall(c, name, NoArg)
              \/ \E def \in VariantsOf(arms) : CtxCall(c, "Enum::unwrap_or", def)
              \/ \E f \in Closures(VariantsOf(arms)) : CtxCall(c, "Enum::is_known_and", f)
              \/ \E f \in Closures(Raws) : CtxCall(c, "Enum::is_unknown_and", f)
              \/ \E want \in VariantsOf(arms) : CtxCall(c, "Enum::is", want)
              \/ \E want \in Wants(VariantsOf(arms)) : CtxCall(c, "Enum::is_any", want)
        \/ /\ ~IsEnum(copies[c])
           /\ CtxCall(c, "UnknownEnumError::value", NoArg)

SpecShared == InitShared /\ [][NextShared]_vars

(* ------------------------------------------- wrappers of native objects *)

\* The resource wrappers, and those that have each query.
WrapperKinds ==
    {"Network", "Interface", "NodeDevice", "NWFilter", "Secret", "StoragePool",
     "StorageVol"}
WithConnect == {"Network", "Interface", "Secret", "StoragePool", "StorageVol"}
WithIsActive == {"Network", "Interface", "StoragePool"}
WithAutostart == {"Network", "StoragePool"}

NativeInts == (0 - MaxNative)..MaxNative

\* Pointers: null, the wrapped object, its connection.
NULL == "null"
ObjPtr == "object"
ConnPtr == "connection"

\* Error::last_error()
LastError == "last_error"

IsErr(r) == "err" \in DOMAIN r

\* check_null!: `let ptr = $e;` evaluates the expression once.
check_null(ptr) ==
    [evals |-> 1, ret |-> IF ptr = NULL THEN Err(LastError) ELSE Ok(ptr)]

\* Mutant: every negative return value is taken for a failure.
check_neg_any_negative(ret) ==
    [evals |-> 1, ret |-> IF ret < 0 THEN Err(LastError) ELSE Ok(ret)]

\* check_neg!: `let ret = $e;` evaluates the expression once.
check_neg(ret) ==
    [evals |-> 1, ret |-> IF ret = -1 THEN Err(LastError) ELSE Ok(ret)]

\* check_zero!: `let ret = $e;` evaluates the expression once.
check_zero(ret) ==
    [evals |-> 1, ret |-> IF ret = 0 THEN Err(LastError) ELSE Ok(ret)]

\* The evaluations of the expression a macro was given.
Evaluations(chk, e) == [k \in 1..chk.evals |-> e]

\* What a native call that changes a reference count may do: it reports a
\* failure by -1, and has changed the count when it reports anything else.
NativeCalls == {[ret |-> v, done |-> v # -1] : v \in NativeInts}

\* The change one evaluation of the call makes to the count.
Effect(n) == IF n.done THEN 1 ELSE 0

\* What a native call with an out-parameter may do: return any value and
\* write the parameter or leave it as the caller set it.
OutCalls ==
    {[ret |-> v, written |-> FALSE, out |-> 0] : v \in NativeInts}
        \cup {[ret |-> v, written |-> TRUE, out |-> o] : v, o \in NativeInts}

\* Mutant: every non-zero value is taken for true.
is_one_nonzero(ret) == ret # 0

\* `ret == 1`
is_one(ret) == ret = 1

\* Mutant: clone copies the pointer and takes no reference.
WrapperClone_no_ref(n) ==
    /\ ~panicked
    /\ native.live >= 1
    /\ native.refs < MaxRefs
    /\ native' = [native EXCEPT !.live = @ + 1]
    /\ last' = Call("Wrapper::clone", native.kind, n, <<[ptr |-> ObjPtr]>>, NoCalls)
    /\ UNCHANGED <<arms, newer, val, origin, valNewer, panicked, typeName, copies, who,
                   dead, disabled>>

\* Clone for Network (and its siblings): virNetworkRef, then a second wrapper
\* on the same pointer; a failed virNetworkRef panics.
WrapperClone(n) ==
    /\ ~panicked
    /\ native.live >= 1
    /\ native.refs < MaxRefs
    /\ LET chk == check_neg(n.ret)
           refs == native.refs + chk.evals * Effect(n)
       IN  IF IsErr(chk.ret)
           THEN /\ native' = [native EXCEPT !.refs = refs]
                /\ panicked' = TRUE
                /\ last' = Call("Wrapper::clone", native.kind, n, <<>>, NoCalls)
           ELSE /\ native' = [native EXCEPT !.refs = refs, !.live = @ + 1]
                /\ panicked' = panicked
                /\ last' = Call("Wrapper::clone", native.kind, n, <<[ptr |-> ObjPtr]>>,
                                NoCalls)
    /\ UNCHANGED <<arms, newer, val, origin, valNewer, typeName, copies, who, dead,
                   disabled>>

\* Drop for Network (and its siblings): virNetworkFree; the wrapper is gone
\* whatever the call returns, and a failed virNetworkFree panics.
WrapperDrop(n) ==
    /\ ~panicked
    /\ native.live >= 1
    /\ LET chk == check_neg(n.ret)
           refs == native.refs - chk.evals * Effect(n)
       IN  /\ native' = [native EXCEPT !.refs = refs, !.live = @ - 1]
           /\ panicked' = IsErr(chk.ret)
           /\ last' = Call("Wrapper::drop", native.kind, n,
                           IF IsErr(chk.ret) THEN <<>> ELSE <<"()">>, NoCalls)
    /\ UNCHANGED <<arms, newer, val, origin, valNewer, typeName, copies, who, dead,
                   disabled>>

\* Mutant: the reference is taken before the pointer is looked at.
WrapperConnect_refs_first(ptr, n) ==
    /\ ~panicked
    /\ native.kind \in WithConnect
    /\ native.live >= 1
    /\ native.connects < MaxRefs
    /\ native' = [native EXCEPT !.connRefs = @ + Effect(n),
                                !.connects = @ + (IF ptr = NULL THEN 0 ELSE 1)]
    /\ last' = Call("Wrapper::connect", native.kind, [ptr |-> ptr, ref |-> n],
                    <<IF ptr = NULL THEN Err(LastError) ELSE Ok([ptr |-> ptr])>>, NoCalls)
    /\ UNCHANGED <<arms, newer, val, origin, valNewer, panicked, typeName, copies, who,
                   dead, disabled>>

\* Network::connect (and its siblings): virNetworkGetConnect gives ptr; a null
\* ptr returns Err through `?`; otherwise virConnectRef, which panics when it
\* fails, and then a Connect on ptr.
WrapperConnect(ptr, n) ==
    /\ ~panicked
    /\ native.kind \in WithConnect
    /\ native.live >= 1
    /\ native.connects < MaxRefs
    /\ LET got == check_null(ptr)
           chk == check_neg(n.ret)
           refs == native.connRefs + chk.evals * Effect(n)
           arg == [ptr |-> ptr, ref |-> n]
       IN  IF IsErr(got.ret)
           THEN /\ native' = native
                /\ panicked' = panicked
                /\ last' = Call("Wrapper::connect", native.kind, arg, <<got.ret>>, NoCalls)
           ELSE IF IsErr(chk.ret)
           THEN /\ native' = [native EXCEPT !.connRefs = refs]
                /\ panicked' = TRUE
                /\ last' = Call("Wrapper::connect", native.kind, arg, <<>>, NoCalls)
           ELSE /\ native' = [native EXCEPT !.connRefs = refs, !.connects = @ + 1]
                /\ panicked' = panicked
                /\ last' = Call("Wrapper::connect", native.kind, arg,
                                <<Ok([ptr |-> got.ret.ok])>>, NoCalls)
    /\ UNCHANGED <<arms, newer, val, origin, valNewer, typeName, copies, who, dead,
                   disabled>>

\* A query that leaves the wrappers and the counts as they are.
Query(name, arg, ret, calls) ==
    /\ ~panicked
    /\ native.live >= 1
    /\ last' = Call(name, native.kind, arg, <<ret>>, calls)
    /\ UNCHANGED <<arms, newer, val, origin, valNewer, panicked, context>>

\* check_neg!(native call)?; Ok(ret == 1)
BoolOf(ret) ==
    LET chk == check_neg(ret)
    IN  IF IsErr(chk.ret) THEN chk.ret ELSE Ok(is_one(chk.ret.ok))

\* Network::is_active, StoragePool::is_active, Interface::is_active
WrapperIsActive(ret) ==
    /\ native.kind \in WithIsActive
    /\ Query("Wrapper::is_active", ret, BoolOf(ret), NoCalls)

\* Network::is_persistent, StoragePool::is_persistent
WrapperIsPersistent(ret) ==
    /\ native.kind \in WithAutostart
    /\ Query("Wrapper::is_persistent", ret, BoolOf(ret), NoCalls)

\* Network::autostart, StoragePool::autostart: `let mut auto = 0;`, the native
\* call is given &mut auto, check_neg!(..)?, Ok(auto == 1).
autostart(n) ==
    LET auto == IF n.written THEN n.out ELSE 0
        chk == check_neg(n.ret)
    IN  IF IsErr(chk.ret) THEN chk.ret ELSE Ok(is_one(auto))

WrapperAutostart(n) ==
    /\ native.kind \in WithAutostart
    /\ Query("Wrapper::autostart", n, autostart(n), NoCalls)

\* A macro expanded on an expression whose value is e: what the block gives
\* and the evaluations of the expression it has made.
Expanded(name, e, chk) ==
    /\ ~panicked
    /\ last' = Call(name, NoSelf, e, <<chk.ret>>, Evaluations(chk, e))
    /\ UNCHANGED <<arms, newer, val, origin, valNewer, panicked, context>>

CheckNull(e) == Expanded("check_null", e, check_null(e))
CheckNeg(e) == Expanded("check_neg", e, check_neg(e))
CheckZero(e) == Expanded("check_zero", e, check_zero(e))

\* One native object, handed to its first wrapper by from_ptr with the one
\* reference the wrapper owns; its connection is held once by the caller.
InitWrap ==
    /\ arms = ExampleDecl
    /\ newer = arms
    /\ val = from_raw(arms, FOO)
    /\ valNewer = val
    /\ origin = [by |-> "from_raw", raw |-> FOO]
    /\ native \in {[kind |-> k, refs |-> 1, live |-> 1, connRefs |-> 1, connects |-> 0] :
                      k \in WrapperKinds}
    /\ last = Call("Wrapper::from_ptr", NoSelf, ObjPtr, <<[ptr |-> ObjPtr]>>, NoCalls)
    /\ panicked = FALSE
    /\ typeName = QualifiedName
    /\ copies = <<>>
    /\ who = 0
    /\ dead = {}
    /\ disabled = {}

NextWrap ==
    \/ \E n \in NativeCalls : WrapperClone(n)
    \/ \E n \in NativeCalls : WrapperDrop(n)
    \/ \E ptr \in {NULL, ConnPtr}, n \in NativeCalls : WrapperConnect(ptr, n)
    \/ \E ret \in NativeInts : WrapperIsActive(ret)
    \/ \E ret \in NativeInts : WrapperIsPersistent(ret)
    \/ \E n \in OutCalls : WrapperAutostart(n)
    \/ \E ptr \in {NULL, ObjPtr, ConnPtr} : CheckNull(ptr)
    \/ \E ret \in NativeInts : CheckNeg(ret)
    \/ \E ret \in NativeInts : CheckZero(ret)

SpecWrap == InitWrap /\ [][NextWrap]_vars

(* ---------------------------------------------------------------- claims *)

\* The calls whose receiver is an Enum value.
OnEnum ==
    last.op \in {"Enum::to_raw", "Enum::unwrap", "Enum::unwrap_or", "Enum::is_known",
                 "Enum::is_unknown", "Enum::is_known_and", "Enum::is_unknown_and",
                 "Enum::is", "Enum::is_any", "Enum::known", "Enum::unknown",
                 "Enum::into", "Enum::to_string"}

\* val was resolved from a raw value the declaration does not name.
FromUndeclaredRaw == origin.by = "from_raw" /\ origin.raw \notin RawsOf(arms)

\* C1: for every raw r, declared or not, Enum::from_raw(r).to_raw() is r.
C1_RoundTrip ==
    (last.op = "Enum::to_raw" /\ origin.by = "from_raw") => last.ret = <<origin.raw>>

C1_Witness ==
    /\ last.op = "Enum::to_raw"
    /\ FromUndeclaredRaw
    /\ last.ret = <<origin.raw>>

\* C2: for every declared pair (raw, Variant), E::from_raw(raw) is
\* Some(Variant), Enum::from_raw(raw) is Known(Variant) and Variant.to_raw()
\* is raw.
C2_DeclaredPairs ==
    \A i \in DOMAIN arms :
        /\ (last.op = "RawEnum::from_raw" /\ last.arg = arms[i].raw)
               => last.ret = <<Some(arms[i].name)>>
        /\ (last.op = "Enum::from_raw" /\ last.arg = arms[i].raw)
               => last.ret = <<Known(arms[i].name)>>
        /\ (last.op = "RawEnum::to_raw" /\ last.self = arms[i].name)
               => last.ret = <<arms[i].raw>>

C2_Witness ==
    /\ last.op = "RawEnum::to_raw"
    /\ Len(arms) = Cardinality(Variants)
    /\ last.self = arms[Len(arms)].name
    /\ last.ret = <<arms[Len(arms)].raw>>

\* C3: Enum::from_raw never fails; it returns Known(e) exactly when
\* E::from_raw(r) is Some(e) and Unknown(r) otherwise, so an undeclared r gives
\* a value that is_unknown and whose to_raw is r.
C3_FromRawTotal ==
    last.op = "Enum::from_raw" =>
        /\ ~panicked
        /\ Len(last.ret) = 1
        /\ \A e \in Variants :
               (last.ret[1] = Known(e)) <=> (RawEnum_from_raw(arms, last.arg) = Some(e))
        /\ RawEnum_from_raw(arms, last.arg) = None => last.ret[1] = Unknown(last.arg)
        /\ last.arg \notin RawsOf(arms) =>
               /\ last.ret[1] = Unknown(last.arg)
               /\ is_unknown(last.ret[1])
               /\ to_raw(arms, last.ret[1]) = last.arg

C3_Witness ==
    /\ last.op = "Enum::from_raw"
    /\ last.arg \notin RawsOf(arms)
    /\ last.arg # 0
    /\ last.ret = <<Unknown(last.arg)>>

\* C4: for every variant v of E, E::from_raw(v.to_raw()) is Some(v).
C4_Inverse ==
    last.op = "RawEnum::to_raw" =>
        RawEnum_from_raw(arms, last.ret[1]) = Some(last.self)

C4_Witness ==
    /\ last.op = "RawEnum::to_raw"
    /\ last.self = arms[Len(arms)].name
    /\ RawEnum_from_raw(arms, last.ret[1]) = Some(last.self)

\* C5: exactly one of is_known() and is_unknown() is true and exactly one of
\* known() and unknown() is Some; known() is Some iff is_known(), unknown() is
\* Some iff is_unknown().
C5_Partition ==
    /\ last.op = "Enum::is_known" =>
           /\ last.ret[1] = ~is_unknown(last.self)
           /\ last.ret[1] = (known(last.self) # None)
    /\ last.op = "Enum::is_unknown" =>
           /\ last.ret[1] = ~is_known(last.self)
           /\ last.ret[1] = (unknown(last.self) # None)
    /\ last.op = "Enum::known" =>
           /\ (last.ret[1] # None) = (unknown(last.self) = None)
           /\ (last.ret[1] # None) = is_known(last.self)
    /\ last.op = "Enum::unknown" =>
           /\ (last.ret[1] # None) = (known(last.self) = None)
           /\ (last.ret[1] # None) = is_unknown(last.self)

C5_Witness ==
    /\ last.op = "Enum::is_unknown"
    /\ FromUndeclaredRaw
    /\ last.ret = <<TRUE>>
    /\ ~is_known(val)

\* C6: the Result conversion gives Ok(e) for Known(e) and, for Unknown(v), an
\* Err whose value() is v; never Ok for an Unknown nor Err for a Known.
C6_ResultFidelity ==
    /\ last.op = "Enum::into" =>
           /\ last.self.tag = "Known" => last.ret = <<Ok(last.self.k)>>
           /\ last.self.tag = "Unknown" => last.ret = <<Err(UnknownEnumError(last.self.u))>>
           /\ ("ok" \in DOMAIN last.ret[1]) = (last.self.tag = "Known")
           /\ ("err" \in DOMAIN last.ret[1]) = (last.self.tag = "Unknown")
    /\ last.op = "UnknownEnumError::value" =>
           /\ val.tag = "Unknown"
           /\ last.ret = <<val.u>>

C6_Witness ==
    /\ last.op = "UnknownEnumError::value"
    /\ val.tag = "Unknown"
    /\ val.u # 0
    /\ last.ret = <<val.u>>

\* C7: unwrap() returns e for Known(e) and panics, returning nothing, for
\* Unknown(v); Enum::from_raw(r).unwrap() panics for every undeclared r. A
\* panic ends the client.
C7_Unwrap ==
    /\ last.op = "Enum::unwrap" =>
           /\ last.self.tag = "Known" => (last.ret = <<last.self.k>> /\ ~panicked)
           /\ last.self.tag = "Unknown" => (last.ret = <<>> /\ panicked)
           /\ FromUndeclaredRaw => (last.ret = <<>> /\ panicked)
    /\ panicked => (last.op = "Enum::unwrap" /\ ~ENABLED Next)

C7_Witness ==
    /\ last.op = "Enum::unwrap"
    /\ FromUndeclaredRaw
    /\ last.ret = <<>>
    /\ panicked

\* C8: for an Unknown(v), no call but unwrap_or yields a symbolic value:
\* known() is None, the Result conversion is Err, unwrap panics, is, is_any and
\* is_known_and are false; and from_raw resolves no undeclared raw to a variant.
C8_NoCoercion ==
    /\ (OnEnum /\ last.self.tag = "Unknown") =>
           /\ last.op = "Enum::known" => last.ret = <<None>>
           /\ last.op = "Enum::into" => "ok" \notin DOMAIN last.ret[1]
           /\ last.op = "Enum::unwrap" => last.ret = <<>>
           /\ last.op \in {"Enum::is", "Enum::is_any", "Enum::is_known_and"}
                  => last.ret = <<FALSE>>
           /\ last.op = "Enum::to_raw" => last.ret = <<last.self.u>>
    /\ (last.op = "Enum::from_raw" /\ last.arg \notin RawsOf(arms))
           => last.ret[1].tag = "Unknown"

C8_Witness ==
    /\ last.op = "Enum::is_any"
    /\ last.self.tag = "Unknown"
    /\ last.arg # <<>>
    /\ last.ret = <<FALSE>>

\* C9: when `newer` extends `arms` with added pairs, every raw r resolves
\* under both to values with the same to_raw(); an r declared in `arms`
\* resolves to the same variant under both, and an r declared only in `newer`
\* resolves under `arms` to Unknown(r).
C9_ForwardCompatible ==
    origin.by = "from_raw" =>
        /\ to_raw(arms, val) = to_raw(newer, valNewer)
        /\ origin.raw \in RawsOf(arms) => (val.tag = "Known" /\ val = valNewer)
        /\ origin.raw \in RawsOf(newer) \ RawsOf(arms) => val = Unknown(origin.raw)

C9_Witness ==
    /\ origin.by = "from_raw"
    /\ origin.raw \in RawsOf(newer) \ RawsOf(arms)
    /\ val = Unknown(origin.raw)
    /\ valNewer.tag = "Known"
    /\ last.op = "Enum::to_raw"
    /\ last.ret = <<to_raw(newer, valNewer)>>

\* C10: unwrap_or(default) never fails; it returns e for Known(e) whatever
\* the default, and the default for Unknown(v).
C10_UnwrapOr ==
    last.op = "Enum::unwrap_or" =>
        /\ ~panicked
        /\ Len(last.ret) = 1
        /\ last.self.tag = "Known" => last.ret[1] = last.self.k
        /\ last.self.tag = "Unknown" => last.ret[1] = last.arg

C10_Witness ==
    /\ last.op = "Enum::unwrap_or"
    /\ last.self.tag = "Known"
    /\ last.arg # last.self.k
    /\ last.ret = <<last.self.k>>

\* C11: is_known_and(p) is p(e) for Known(e) and false for Unknown;
\* is_unknown_and(p) is p(v) for Unknown(v) and false for Known; the
\* predicate is not invoked when the variant does not match.
C11_Predicates ==
    /\ last.op = "Enum::is_known_and" =>
           /\ last.self.tag = "Known" =>
                  (last.ret = <<last.arg[last.self.k]>> /\ last.calls = <<last.self.k>>)
           /\ last.self.tag = "Unknown" => (last.ret = <<FALSE>> /\ last.calls = <<>>)
    /\ last.op = "Enum::is_unknown_and" =>
           /\ last.self.tag = "Unknown" =>
                  (last.ret = <<last.arg[last.self.u]>> /\ last.calls = <<last.self.u>>)
           /\ last.self.tag = "Known" => (last.ret = <<FALSE>> /\ last.calls = <<>>)

C11_Witness ==
    /\ last.op = "Enum::is_known_and"
    /\ last.self.tag = "Unknown"
    /\ last.arg = Always(VariantsOf(arms))
    /\ last.ret = <<FALSE>>
    /\ last.calls = <<>>

\* C12: is(candidate) is true iff the value is Known(e) with e = candidate;
\* it is false for every Unknown(v), also when v is candidate.to_raw().
C12_Is ==
    last.op = "Enum::is" =>
        /\ last.ret[1] = (last.self.tag = "Known" /\ last.self.k = last.arg)
        /\ last.self.tag = "Unknown" => last.ret = <<FALSE>>

C12_Witness ==
    /\ last.op = "Enum::is"
    /\ last.self.tag = "Unknown"
    /\ last.self.u = RawEnum_to_raw(arms, last.arg)
    /\ last.ret = <<FALSE>>

\* C13: is_any(candidates) is true iff the value is Known(e) and e is an
\* element of candidates; false for the empty list and for every Unknown.
C13_IsAny ==
    last.op = "Enum::is_any" =>
        /\ last.ret[1] = (/\ last.self.tag = "Known"
                          /\ last.self.k \in {last.arg[i] : i \in DOMAIN last.arg})
        /\ last.arg = <<>> => last.ret = <<FALSE>>
        /\ last.self.tag = "Unknown" => last.ret = <<FALSE>>

C13_Witness ==
    /\ last.op = "Enum::is_any"
    /\ last.self.tag = "Known"
    /\ Len(last.arg) = 2
    /\ last.arg[1] # last.self.k
    /\ last.arg[2] = last.self.k
    /\ last.ret = <<TRUE>>

\* The calls C14 lists: every accessor but unwrap.
Projections ==
    {"Enum::to_raw", "Enum::unwrap_or", "Enum::is_known", "Enum::is_unknown",
     "Enum::is_known_and", "Enum::is_unknown_and", "Enum::is", "Enum::is_any",
     "Enum::known", "Enum::unknown", "Enum::into", "Enum::to_string"}

\* C14: a step that applies to_raw, unwrap_or, is_known, is_unknown,
\* is_known_and, is_unknown_and, is, is_any, known, unknown, rendering or the
\* Result conversion leaves the value with the same variant and payload, and
\* a call repeated with the same argument returns the same result.
C14_FixedAtConstruction ==
    [][last'.op \in Projections =>
           /\ val' = val
           /\ last'.self = val
           /\ (last.op = last'.op /\ last.arg = last'.arg) => last'.ret = last.ret]_vars

C14_Witness ==
    /\ last.op = "Enum::unwrap_or"
    /\ last.self = val
    /\ origin.by = "from_raw"
    /\ val = Unknown(origin.raw)
    /\ last.ret = <<last.arg>>

\* C15: an UnknownEnumError comes only from the Result conversion of an
\* Unknown and carries the raw value of that Unknown; every other call
\* returns a value of its own type, none of them an error.
C15_ErrorOrigin ==
    /\ (last.op = "Enum::into" /\ "err" \in DOMAIN last.ret[1]) =>
           /\ last.self.tag = "Unknown"
           /\ last.ret[1].err = UnknownEnumError(last.self.u)
    /\ last.op = "UnknownEnumError::value" =>
           /\ val.tag = "Unknown"
           /\ last.self = UnknownEnumError(val.u)
    /\ last.op \in {"Enum::from_raw", "Enum::from", "Enum::Known", "Enum::Unknown"} =>
           last.ret[1] \in EnumValues(arms)
    /\ last.op \in {"Enum::is_known", "Enum::is_unknown", "Enum::is_known_and",
                    "Enum::is_unknown_and", "Enum::is", "Enum::is_any"} =>
           last.ret[1] \in BOOLEAN
    /\ last.op \in {"Enum::to_raw", "RawEnum::to_raw", "UnknownEnumError::value"} =>
           last.ret[1] \in Raws
    /\ last.op \in {"Enum::unwrap", "Enum::unwrap_or"} =>
           \A i \in DOMAIN last.ret : last.ret[i] \in Variants
    /\ last.op \in {"Enum::known", "RawEnum::from_raw"} =>
           (last.ret[1] = None \/ last.ret[1] \in {Some(e) : e \in Variants})
    /\ last.op = "Enum::unknown" =>
           (last.ret[1] = None \/ last.ret[1] \in {Some(r) : r \in Raws})
    /\ last.op \in {"Enum::to_string", "Display::to_string"} =>
           \A i \in DOMAIN last.ret[1] : last.ret[1][i] \in STRING

C15_Witness ==
    /\ last.op = "Enum::into"
    /\ last.self.tag = "Unknown"
    /\ last.self.u # 0
    /\ last.ret = <<Err(UnknownEnumError(last.self.u))>>

\* s contains sub as a substring.
Contains(s, sub) ==
    \E i \in 0..(Len(s) - Len(sub)) : SubSeq(s, i + 1, i + Len(sub)) = sub

\* C16: a variant renders as its identifier with every letter lower-cased and
\* nothing added or removed (Foo as "foo", Bar as "bar"), the same in every
\* state.
C16_LowerCased ==
    last.op = "Display::to_string" =>
        /\ last.self = "Foo" => last.ret = << <<"f", "o", "o">> >>
        /\ last.self = "Bar" => last.ret = << <<"b", "a", "r">> >>
        /\ last.self = "Baz" => last.ret = << <<"b", "a", "z">> >>
        /\ Len(last.ret[1]) = Len(stringify(last.self))
        /\ \A i \in DOMAIN last.ret[1] :
               \A j \in DOMAIN UpperCase :
                   /\ last.ret[1][i] # UpperCase[j]
                   /\ stringify(last.self)[i] \in {UpperCase[j], LowerCase[j]}
                          => last.ret[1][i] = LowerCase[j]

C16_Witness ==
    /\ last.op = "Display::to_string"
    /\ last.self = "Bar"
    /\ last.ret = << <<"b", "a", "r">> >>

\* C17: an Enum renders, for Known(e), as e renders and, for Unknown(v), as
\* the type's name followed at once by v in parentheses, so that the text
\* contains the identifier of the type and "(v)".
C17_EnumRendering ==
    last.op = "Enum::to_string" =>
        /\ last.self.tag = "Known" =>
               /\ last.ret = <<Display_fmt(arms, last.self.k)>>
               /\ last.self.k = "Bar" => last.ret = << <<"b", "a", "r">> >>
        /\ last.self.tag = "Unknown" =>
               /\ last.ret[1] = typeName \o <<"(">> \o Decimal(last.self.u) \o <<")">>
               /\ Contains(last.ret[1], BareName)
               /\ Contains(last.ret[1], <<"(", Digits[last.self.u + 1], ")">>)
               /\ Contains(last.ret[1],
                           BareName \o <<"(", Digits[last.self.u + 1], ")">>)

C17_Witness ==
    /\ last.op = "Enum::to_string"
    /\ last.self.tag = "Unknown"
    /\ typeName = QualifiedName
    /\ Contains(last.ret[1], BareName \o <<"(", Digits[last.self.u + 1], ")">>)

\* The ways of building an Enum that take a symbolic value.
FromSymbolic == origin.by \in {"from", "Known"}

\* C18 as stated: From<E> always produces Known(v), and a value built from a
\* symbolic value was built by From<E>.
C18_OnlyFrom ==
    /\ last.op = "Enum::from" => last.ret = <<Known(last.arg)>>
    /\ FromSymbolic => origin.by = "from"

\* C18, amended: From<E> always produces Known(v), never Unknown; the one
\* other way from a symbolic value to an Enum is the public variant
\* constructor Enum::Known, which gives Known(v) too.
C18_FromIsKnown ==
    /\ last.op = "Enum::from" => (last.ret = <<Known(last.arg)>> /\ val = Known(last.arg))
    /\ FromSymbolic => val = Known(origin.e)
    /\ last.op \in {"Enum::from", "Enum::Known"} => FromSymbolic

C18_Witness ==
    /\ last.op = "Enum::from"
    /\ origin.by = "from"
    /\ val = Known(last.arg)

\* i is the first arm of the declaration with its constant / with its variant.
FirstWithRaw(i) == \A j \in 1..(i - 1) : arms[j].raw # arms[i].raw
FirstWithName(i) == \A j \in 1..(i - 1) : arms[j].name # arms[i].name

\* Two arms give one variant two different constants.
SharedVariant(i, j) == i < j /\ arms[i].name = arms[j].name /\ arms[i].raw # arms[j].raw

C20_NoInterference ==
    /\ \A c \in Contexts : copies[c] = val
    /\ who \in Contexts =>
           /\ last.self = val
           /\ last.ret = Outcome(last.op, val, last.arg).ret
           /\ last.calls = Outcome(last.op, val, last.arg).calls
    /\ \A c \in Contexts \ dead : ENABLED CtxCall(c, IF IsEnum(val) THEN "Enum::to_raw"
                                                     ELSE "UnknownEnumError::value", NoArg)

C20_Witness ==
    /\ dead = {1}
    /\ who = 2
    /\ last.op = "Enum::unwrap_or"
    /\ last.self = val
    /\ last.ret = <<last.arg>>

\* What the conversions generated from decl return for the call in `last`.
Generated(decl) ==
    CASE last.op = "RawEnum::from_raw" -> <<RawEnum_from_raw(decl, last.arg)>>
      [] last.op = "RawEnum::to_raw" -> <<RawEnum_to_raw(decl, last.self)>>
      [] last.op = "Display::to_string" -> <<Display_fmt(decl, last.self)>>

OnRawEnum == last.op \in {"RawEnum::from_raw", "RawEnum::to_raw", "Display::to_string"}

C22_FirstMatch ==
    last.op = "RawEnum::from_raw" =>
        IF last.arg \in RawsOf(arms)
        THEN \E i \in DOMAIN arms :
                 /\ arms[i].raw = last.arg
                 /\ \A j \in 1..(i - 1) : arms[j].raw # last.arg
                 /\ last.ret = <<Some(arms[i].name)>>
        ELSE last.ret = <<None>>

C22_Witness ==
    /\ Len(arms) = 3
    /\ arms[1].raw # arms[2].raw
    /\ arms[2].raw = arms[3].raw
    /\ arms[2].name # arms[3].name
    /\ last.op = "RawEnum::from_raw"
    /\ last.arg = arms[3].raw
    /\ last.ret = <<Some(arms[2].name)>>

\* C23: a pair whose build-time condition is off is left out of from_raw,
\* to_raw and the rendering together: its constant resolves to Unknown(raw)
\* and to_raw gives the constant back; every other pair converts both ways
\* and renders as it does in a declaration that never had the disabled pair.
C23_DisabledArm ==
    /\ \A i \in disabled :
           /\ newer[i].name \notin VariantsOf(arms)
           /\ (last.op = "RawEnum::from_raw" /\ last.arg = newer[i].raw)
                  => last.ret = <<None>>
           /\ (last.op = "Enum::from_raw" /\ last.arg = newer[i].raw)
                  => last.ret = <<Unknown(newer[i].raw)>>
           /\ (last.op = "Enum::to_raw" /\ last.self = Unknown(newer[i].raw))
                  => last.ret = <<newer[i].raw>>
    /\ \A i \in DOMAIN newer \ disabled :
           /\ (last.op = "RawEnum::from_raw" /\ last.arg = newer[i].raw)
                  => last.ret = <<Some(newer[i].name)>>
           /\ (last.op = "Enum::from_raw" /\ last.arg = newer[i].raw)
                  => last.ret = <<Known(newer[i].name)>>
           /\ (last.op = "RawEnum::to_raw" /\ last.self = newer[i].name)
                  => last.ret = <<newer[i].raw>>
           /\ (last.op = "Display::to_string" /\ last.self = newer[i].name)
                  => last.ret = <<to_lowercase(stringify(newer[i].name))>>
    /\ (last.op = "RawEnum::from_raw" /\ last.arg \notin RawsOf(newer))
           => last.ret = <<None>>

C23_Witness ==
    /\ Len(newer) = 3
    /\ disabled = {2}
    /\ last.op = "Enum::to_raw"
    /\ origin = [by |-> "from_raw", raw |-> newer[2].raw]
    /\ last.self = Unknown(newer[2].raw)
    /\ last.ret = <<newer[2].raw>>

\* C24: an Unknown(v) returned by Enum::from_raw carries a raw value that
\* E::from_raw does not resolve: no declared pair has the constant v.
C24_Canonical ==
    /\ (last.op = "Enum::from_raw" /\ last.ret[1].tag = "Unknown") =>
           /\ RawEnum_from_raw(arms, last.ret[1].u) = None
           /\ last.ret[1].u \notin RawsOf(arms)
    /\ (origin.by = "from_raw" /\ val.tag = "Unknown") =>
           RawEnum_from_raw(arms, val.u) = None

C24_Witness ==
    /\ Len(arms) = 3
    /\ last.op = "Enum::from_raw"
    /\ last.ret = <<Unknown(last.arg)>>
    /\ RawEnum_from_raw(arms, last.arg) = None

\* C25: for every value x built by Enum::from_raw or by From<E>,
\* Enum::from_raw(x.to_raw()) is x again.
C25_ReResolve ==
    (last.op = "Enum::to_raw" /\ origin.by \in {"from_raw", "from"}) =>
        /\ last.self = val
        /\ from_raw(arms, last.ret[1]) = val

C25_Witness ==
    /\ Len(arms) = 3
    /\ origin.by = "from"
    /\ val = Known(arms[3].name)
    /\ last.op = "Enum::to_raw"
    /\ last.ret = <<arms[3].raw>>
    /\ from_raw(arms, last.ret[1]) = val

\* C26: on every value x, is(c), known() = Some(c), is_known_and(|k| k == c)
\* and is_any([c]) give the same answer for every variant c, and
\* unwrap_or(d) is what the Result conversion of x gives to unwrap_or(d).
C26_AccessorsAgree ==
    /\ \A c \in VariantsOf(arms) :
           /\ is(val, c) = (known(val) = Some(c))
           /\ is(val, c) = is_known_and(val, EqualTo(VariantsOf(arms), c)).ret
           /\ is(val, c) = is_any(val, <<c>>)
    /\ \A d \in VariantsOf(arms) :
           unwrap_or(val, d) = Result_unwrap_or(into(val), d)
    /\ last.op = "Enum::is" =>
           /\ last.ret[1] = (known(last.self) = Some(last.arg))
           /\ last.ret[1] = is_any(last.self, <<last.arg>>)
    /\ last.op = "Enum::known" =>
           \A c \in VariantsOf(arms) : (last.ret[1] = Some(c)) = is(last.self, c)
    /\ last.op = "Enum::unwrap_or" =>
           last.ret[1] = Result_unwrap_or(into(last.self), last.arg)

C26_Witness ==
    /\ last.op = "Enum::known"
    /\ last.self = val
    /\ val.tag = "Known"
    /\ last.ret = <<Some(val.k)>>
    /\ is(val, val.k)
    /\ is_any(val, <<val.k>>)
    /\ Len(arms) = 3

\* C27: a successful clone adds one native reference and one wrapper on the
\* same pointer, a successful drop takes one of each away; so while no call
\* has failed the native count is the number of live wrappers, and the
\* object is not released while a wrapper is alive.
C27_RefsAreWrappers ==
    [][/\ (last'.op = "Wrapper::clone" /\ last'.ret # <<>>) =>
              /\ native'.refs = native.refs + 1
              /\ native'.live = native.live + 1
              /\ last'.ret = <<[ptr |-> ObjPtr]>>
       /\ (last'.op = "Wrapper::drop" /\ last'.ret # <<>>) =>
              /\ native'.refs = native.refs - 1
              /\ native'.live = native.live - 1
       /\ (native'.kind \in WrapperKinds /\ ~panicked') => native'.refs = native'.live
       /\ native'.live > 0 => native'.refs > 0]_vars

C27_Witness ==
    /\ native.kind = "StorageVol"
    /\ last.op = "Wrapper::drop"
    /\ last.ret # <<>>
    /\ native.live = 2
    /\ native.refs = 2
    /\ ~panicked

\* C28: connect() returns Err and leaves the connection's count alone when
\* the native call gives a null pointer; for a non-null pointer it takes
\* exactly one reference and returns a Connect on that pointer, or panics,
\* returning nothing, when the reference cannot be taken.
C28_Connect ==
    [][last'.op = "Wrapper::connect" =>
          /\ last'.arg.ptr = NULL =>
                 /\ last'.ret = <<Err(LastError)>>
                 /\ native'.connRefs = native.connRefs
                 /\ native'.connects = native.connects
                 /\ ~panicked'
          /\ (last'.arg.ptr # NULL /\ last'.arg.ref.ret # -1) =>
                 /\ last'.ret = <<Ok([ptr |-> last'.arg.ptr])>>
                 /\ native'.connRefs = native.connRefs + 1
                 /\ native'.connects = native.connects + 1
                 /\ ~panicked'
          /\ (last'.arg.ptr # NULL /\ last'.arg.ref.ret = -1) =>
                 /\ last'.ret = <<>>
                 /\ panicked'
                 /\ native'.connects = native.connects
                 /\ native'.connRefs = native.connRefs]_vars

C28_Witness ==
    /\ last.op = "Wrapper::connect"
    /\ last.arg.ptr = ConnPtr
    /\ last.ret = <<Ok([ptr |-> ConnPtr])>>
    /\ native.connects = 2
    /\ native.connRefs = 3
    /\ ~panicked

C30_Checks ==
    /\ last.op = "check_neg" =>
           /\ last.ret = <<IF last.arg = -1 THEN Err(LastError) ELSE Ok(last.arg)>>
           /\ last.calls = <<last.arg>>
    /\ last.op = "check_null" =>
           /\ last.ret = <<IF last.arg = NULL THEN Err(LastError) ELSE Ok(last.arg)>>
           /\ last.calls = <<last.arg>>
    /\ last.op = "check_zero" =>
           /\ last.ret = <<IF last.arg = 0 THEN Err(LastError) ELSE Ok(last.arg)>>
           /\ last.calls = <<last.arg>>

C30_Witness ==
    /\ last.op = "check_neg"
    /\ last.arg = -2
    /\ last.ret = <<Ok(-2)>>
    /\ last.calls = <<-2>>

====
